---- MODULE Spec2Model ----
(***************************************************************************)
(* cargo-dead: detection and removal of unused dependencies.               *)
(* A model of src/main.rs: main's loop over the workspace packages and     *)
(* analyze_package (source scan, manifest read, the three per-kind loops,  *)
(* the conditional manifest write).                                        *)
(***************************************************************************)
EXTENDS Integers, Sequences, FiniteSets, TLC

\* ------------------------------------------------------------- bounds
\* Dependency declarations in one manifest.
MaxDeps == 2
\* Directory entries yielded by one directory walk.
MaxFiles == 2
\* Packages listed by the metadata provider.
NPkgs == 3
\* Consecutive runs of the tool on the same workspace.
MaxRuns == 2

\* ------------------------------------------------------------- data
\* Crate names a manifest may declare; the sources also use the identifier "x".
Names == {"a", "b"}

\* cargo_metadata::DependencyKind, in the order analyze_package treats them.
KindOrder == <<"normal", "dev", "build">>
Kinds == {KindOrder[i] : i \in 1..3}

\* The manifest table analyze_package indexes for each kind.
TableName(kind) ==
  CASE kind = "normal" -> "dependencies"
    [] kind = "dev" -> "dev-dependencies"
    [] kind = "build" -> "build-dependencies"

\* Where else a manifest declares dependencies of a kind: a
\* [target.'cfg(..)'.<table>] table, which the metadata provider reports but
\* analyze_package never indexes.
TargetTableName(kind) ==
  CASE kind = "normal" -> "target.dependencies"
    [] kind = "dev" -> "target.dev-dependencies"
    [] kind = "build" -> "target.build-dependencies"

DepTables == {TableName(k) : k \in Kinds}
TargetTables == {TargetTableName(k) : k \in Kinds}
TopKeys == {"package"} \cup DepTables \cup TargetTables

\* toml_edit::Item: None (no such key), Table (a [header] table) or Value (any
\* value, an inline table included); keys are kept in document order.
NoItem == [type |-> "None", keys |-> <<>>]
KV(n) == [key |-> n, val |-> "1"]
PackageItem == [type |-> "Table", keys |-> <<[key |-> "name", val |-> "pkg"], [key |-> "a", val |-> "0"]>>]

KeysOf(item) == {item.keys[i].key : i \in 1..Len(item.keys)}

\* Mutants of Table::remove: one that empties the table, one that removes
\* nothing.
RemoveKey_all(item, key) == [item EXCEPT !.keys = <<>>]

RemoveKey_noop(item, key) == item

\* Table::remove: drops the key when present, nothing otherwise.
RemoveKey(item, key) ==
  [item EXCEPT !.keys = SelectSeq(item.keys, LAMBDA e : e.key # key)]

\* ------------------------------------------------------------- filter
FilterOptions == [only_dev : BOOLEAN, only_build : BOOLEAN, only_regular : BOOLEAN]
NoFilter == [only_dev |-> FALSE, only_build |-> FALSE, only_regular |-> FALSE]

\* Mutant of check_normal: the only_build flag is forgotten.
check_normal_forgets_build(filter) ==
  filter.only_regular \/ ~filter.only_dev

check_normal(filter) ==
  filter.only_regular \/ (~filter.only_dev /\ ~filter.only_build)

check_dev(filter) ==
  filter.only_dev \/ (~filter.only_regular /\ ~filter.only_build)

check_build(filter) ==
  filter.only_build \/ (~filter.only_regular /\ ~filter.only_dev)

Active(filter, kind) ==
  CASE kind = "normal" -> check_normal(filter)
    [] kind = "dev" -> check_dev(filter)
    [] kind = "build" -> check_build(filter)

\* ------------------------------------------------------------- sources
\* syn::Path: its segments, and the paths nested in its generic arguments.
\* A syntax tree is given as the sequence of its syn::Path nodes, the nodes
\* Visit hands to visit_path; what syn does not parse as a Path (the tree of a
\* `use` declaration, the tokens of a macro body) is not part of it.
Path(segments, args) == [segments |-> segments, args |-> args]

\* CrateVisitor::visit_path on one path node: insert the first segment, then
\* let syn::visit::visit_path descend into the nested paths.
RECURSIVE visit_paths(_, _)
\* Mutant of visit_path: the last segment is taken for the first.
visit_path_last(used, path) ==
  LET n == Len(path.segments)
      first == IF n > 0 THEN used \cup {path.segments[n]} ELSE used
  IN  visit_paths(first, path.args)

visit_path(used, path) ==
  LET first == IF Len(path.segments) > 0 THEN used \cup {Head(path.segments)} ELSE used
  IN  visit_paths(first, path.args)

visit_paths(used, paths) ==
  IF paths = <<>> THEN used
  ELSE visit_paths(visit_path(used, Head(paths)), Tail(paths))

\* Visit::visit_file: every path node of the syntax tree is visited.
visit_file(used, tree) == visit_paths(used, tree)

\* One step of scan_rust_files' loop for a directory entry: "skip" (walk error
\* dropped by filter_map, or not a .rs file), "err" (read_to_string failed and
\* `?` returns), or the visitor's set after the file.
ScanEntry(used, e) ==
  IF ~e.walk_ok \/ e.ext # "rs" THEN [ok |-> TRUE, used |-> used]
  ELSE IF ~e.readable THEN [ok |-> FALSE, used |-> used]
  ELSE IF ~e.parses THEN [ok |-> TRUE, used |-> used]
  ELSE [ok |-> TRUE, used |-> visit_file(used, e.tree)]

RECURSIVE ScanFrom(_, _)
ScanFrom(used, entries) ==
  IF entries = <<>> THEN [ok |-> TRUE, used |-> used]
  ELSE LET r == ScanEntry(used, Head(entries))
       IN  IF r.ok THEN ScanFrom(r.used, Tail(entries)) ELSE r

scan_rust_files(entries) == ScanFrom({}, entries)

\* ------------------------------------------------------------- metadata
\* The dependencies the metadata provider reports for a manifest: the keys of
\* the three tables (whichever way they are written) and of the
\* target-specific tables, as (name, kind) entries in declaration order.
ItemDeps(item, kind) ==
  [i \in 1..Len(item.keys) |-> [name |-> item.keys[i].key, kind |-> kind]]

KindDeps(manifest, kind) ==
  ItemDeps(manifest[TableName(kind)], kind) \o ItemDeps(manifest[TargetTableName(kind)], kind)

Dependencies(manifest) ==
  KindDeps(manifest, "normal") \o KindDeps(manifest, "dev") \o KindDeps(manifest, "build")

get_dependency_names(dependencies, kind) ==
  {dependencies[i].name : i \in {j \in 1..Len(dependencies) : dependencies[j].kind = kind}}

\* ------------------------------------------------------------- state
VARIABLES
  cli,          \* the parsed command line: [fix, filter]
  ws,           \* the workspace on disk: per package, member flag, manifest, sources
  metadata,     \* MetadataCommand's result: per package, member flag and dependencies
  pc,           \* position in main / analyze_package
  cur,          \* index of the package main's loop is at
  dir,          \* index in ["src", "tests"] of analyze_package's scan loop
  used_crates,  \* analyze_package's used_crates
  declared,     \* declared_normal / declared_dev / declared_build, by kind
  doc,          \* the parsed manifest document
  changed,      \* analyze_package's changed flag
  iter,         \* the names the running for loop over a HashSet has yet to yield
  out,          \* the lines printed for the current package
  err,          \* why the run returned an error, "none" otherwise
  started,      \* history: the packages analyze_package was called for, in call order
  completed,    \* history: the packages whose analyze_package returned Ok
  written,      \* history: the (run, package) pairs whose manifest file was written
  before,       \* history: the manifests as they were when this run started
  run           \* which consecutive run of the tool this is

vars == <<cli, ws, metadata, pc, cur, dir, used_crates, declared, doc, changed,
          iter, out, err, started, completed, written, before, run>>

locals == <<dir, used_crates, declared, doc, changed, iter, out>>
history == <<started, completed, written>>

DirOrder == <<"src", "tests">>
EmptyDoc == [k \in TopKeys |-> NoItem]
NoDeclared == [k \in Kinds |-> {}]
Line(t, kind, name) == [t |-> t, kind |-> kind, name |-> name]

Manifests(w) == [i \in 1..Len(w) |-> w[i].manifest]

\* The names a for loop over declared_<kind> iterates: the loop is entered only
\* when the kind's check flag is set.
LoopOver(kind) == IF Active(cli.filter, kind) THEN declared[kind] ELSE {}

\* The kind whose loop follows the given one; "write" after the last.
AfterKind(kind) ==
  CASE kind = "normal" -> "dev"
    [] kind = "dev" -> "build"
    [] kind = "build" -> "write"

\* `if !used_crates.contains(dep)`
IsUnused(used, dep) == dep \notin used

\* Mutant of the Item::Table match: an inline table passes for a table.
IsTable_any(item) == item.type # "None"

\* `if let Item::Table(ref mut tbl) = doc[<table>]`
IsTable(item) == item.type = "Table"

\* Mutant of the write guard: every fix pass writes.
ShouldWrite_always(fix, chg) == fix

\* `if fix && changed`
ShouldWrite(fix, chg) == fix /\ chg

\* Mutant of `?`: the error is noted and main's loop goes on.
Fail_continue(why) ==
  /\ pc' = "loop"
  /\ err' = why

\* `?` on an Err: analyze_package returns it, main returns it.
Fail(why) ==
  /\ pc' = "failed"
  /\ err' = why

\* ------------------------------------------------------------- main
\* main: Cli::parse, MetadataCommand::new().exec()?
Exec ==
  /\ pc = "main"
  /\ \E ok \in BOOLEAN :
       IF ok
       THEN /\ metadata' = [i \in 1..Len(ws) |->
                              [member |-> ws[i].member,
                               dependencies |-> Dependencies(ws[i].manifest)]]
            /\ pc' = "loop"
            /\ err' = err
       ELSE /\ Fail("metadata")
            /\ UNCHANGED metadata
  /\ UNCHANGED <<cli, ws, cur, locals, history, before, run>>

\* main's for loop: a package that is no workspace member is passed over.
SkipPackage ==
  /\ pc = "loop"
  /\ cur < Len(metadata)
  /\ ~metadata[cur + 1].member
  /\ cur' = cur + 1
  /\ UNCHANGED <<cli, ws, metadata, pc, locals, err, history, before, run>>

\* main's for loop calls analyze_package; its lines 63-70.
EnterPackage ==
  /\ pc = "loop"
  /\ cur < Len(metadata)
  /\ metadata[cur + 1].member
  /\ cur' = cur + 1
  /\ pc' = "scan"
  /\ dir' = 1
  /\ used_crates' = {}
  /\ declared' = [k \in Kinds |->
                    get_dependency_names(metadata[cur + 1].dependencies, k)]
  /\ doc' = EmptyDoc
  /\ changed' = FALSE
  /\ iter' = {}
  /\ out' = <<Line("Analyzing", "", "")>>
  /\ started' = Append(started, cur + 1)
  /\ UNCHANGED <<cli, ws, metadata, err, completed, written, before, run>>

\* main returns Ok(()) after the last package.
MainReturn ==
  /\ pc = "loop"
  /\ cur = Len(metadata)
  /\ pc' = "exit"
  /\ UNCHANGED <<cli, ws, metadata, cur, locals, err, history, before, run>>

\* ------------------------------------------------------------- analyze_package
\* One round of `for dir in ["src", "tests"]`.
ScanDir ==
  /\ pc = "scan"
  /\ LET d == ws[cur].fs[DirOrder[dir]]
         r == IF d.exists THEN scan_rust_files(d.entries) ELSE [ok |-> TRUE, used |-> {}]
     IN  IF r.ok
         THEN /\ used_crates' = used_crates \cup r.used
              /\ IF dir < Len(DirOrder)
                 THEN dir' = dir + 1 /\ pc' = pc
                 ELSE dir' = dir /\ pc' = "build_rs"
              /\ err' = err
         ELSE /\ Fail("source_read")
              /\ UNCHANGED <<used_crates, dir>>
  /\ UNCHANGED <<cli, ws, metadata, cur, declared, doc, changed, iter, out,
                 history, before, run>>

\* build.rs: read when it exists, visited when it parses.
ScanBuildRs ==
  /\ pc = "build_rs"
  /\ LET f == ws[cur].fs.build_rs
     IN  IF ~f.exists
         THEN pc' = "manifest" /\ UNCHANGED <<used_crates, err>>
         ELSE IF ~f.readable
         THEN Fail("source_read") /\ UNCHANGED used_crates
         ELSE /\ used_crates' = IF f.parses
                                THEN used_crates \cup visit_file({}, f.tree)
                                ELSE used_crates
              /\ pc' = "manifest"
              /\ err' = err
  /\ UNCHANGED <<cli, ws, metadata, cur, dir, declared, doc, changed, iter, out,
                 history, before, run>>

\* fs::read_to_string(Cargo.toml)?.parse()?, changed = false, the check flags.
ReadManifest ==
  /\ pc = "manifest"
  /\ \E outcome \in {"ok", "manifest_read", "manifest_parse"} :
       IF outcome = "ok"
       THEN /\ doc' = ws[cur].manifest
            /\ changed' = FALSE
            /\ pc' = "normal"
            /\ iter' = LoopOver("normal")
            /\ err' = err
       ELSE /\ Fail(outcome)
            /\ UNCHANGED <<doc, changed, iter>>
  /\ UNCHANGED <<cli, ws, metadata, cur, dir, used_crates, declared, out,
                 history, before, run>>

\* One iteration of a `for dep in &declared_<kind>` loop. A HashSet yields its
\* elements in no particular order.
VisitDep ==
  /\ pc \in Kinds
  /\ \E dep \in iter :
       /\ iter' = iter \ {dep}
       /\ IF IsUnused(used_crates, dep)
          THEN /\ out' = Append(out, Line("Unused", pc, dep))
               /\ IF cli.fix /\ IsTable(doc[TableName(pc)])
                  THEN /\ doc' = [doc EXCEPT ![TableName(pc)] = RemoveKey(@, dep)]
                       /\ changed' = TRUE
                  ELSE UNCHANGED <<doc, changed>>
          ELSE UNCHANGED <<out, doc, changed>>
  /\ UNCHANGED <<cli, ws, metadata, pc, cur, dir, used_crates, declared, err,
                 history, before, run>>

\* A loop is over (or its check flag is unset): on to the next kind.
NextKind ==
  /\ pc \in Kinds
  /\ iter = {}
  /\ pc' = AfterKind(pc)
  /\ iter' = IF AfterKind(pc) \in Kinds THEN LoopOver(AfterKind(pc)) ELSE {}
  /\ UNCHANGED <<cli, ws, metadata, cur, dir, used_crates, declared, doc, changed,
                 out, err, history, before, run>>

\* `if fix && changed { fs::write(..)?; println!("Updated ..") }  Ok(())`
WriteManifest ==
  /\ pc = "write"
  /\ IF ShouldWrite(cli.fix, changed)
     THEN \E ok \in BOOLEAN :
            IF ok
            THEN /\ ws' = [ws EXCEPT ![cur].manifest = doc]
                 /\ written' = written \cup {<<run, cur>>}
                 /\ out' = Append(out, Line("Updated", "", ""))
                 /\ completed' = completed \cup {cur}
                 /\ pc' = "loop"
                 /\ err' = err
            ELSE /\ Fail("manifest_write")
                 /\ UNCHANGED <<ws, written, out, completed>>
     ELSE /\ completed' = completed \cup {cur}
          /\ pc' = "loop"
          /\ UNCHANGED <<ws, written, out, err>>
  /\ UNCHANGED <<cli, metadata, cur, dir, used_crates, declared, doc, changed,
                 iter, started, before, run>>

\* The tool is run again on the workspace the previous fix run left, with the
\* same command line.
RunAgain ==
  /\ pc = "exit"
  /\ cli.fix
  /\ run < MaxRuns
  /\ run' = run + 1
  /\ pc' = "main"
  /\ cur' = 0
  /\ metadata' = <<>>
  /\ dir' = 1
  /\ used_crates' = {}
  /\ declared' = NoDeclared
  /\ doc' = EmptyDoc
  /\ changed' = FALSE
  /\ iter' = {}
  /\ out' = <<>>
  /\ started' = <<>>
  /\ completed' = {}
  /\ before' = Manifests(ws)
  /\ UNCHANGED <<cli, ws, err, written>>

Next ==
  \/ Exec
  \/ SkipPackage
  \/ EnterPackage
  \/ MainReturn
  \/ ScanDir
  \/ ScanBuildRs
  \/ ReadManifest
  \/ VisitDep
  \/ NextKind
  \/ WriteManifest
  \/ RunAgain

\* ------------------------------------------------------------- inputs
\* Sequences of distinct names, as the keys of one table.
KeySeqs ==
  {<<>>} \cup {<<n>> : n \in Names}
         \cup {<<p[1], p[2]>> : p \in {q \in Names \X Names : q[1] # q[2]}}

KVs(names) == [i \in 1..Len(names) |-> KV(names[i])]

\* A manifest: the type of each of the three tables, its keys, and the keys of
\* the target-specific table of the same kind.
MkDoc(types, top, tgt) ==
  [k \in TopKeys |->
     IF k = "package" THEN PackageItem
     ELSE IF k \in DepTables
     THEN LET kind == CHOOSE x \in Kinds : TableName(x) = k
          IN  [type |-> types[kind], keys |-> KVs(top[kind])]
     ELSE LET kind == CHOOSE x \in Kinds : TargetTableName(x) = k
          IN  IF tgt[kind] = <<>> THEN NoItem
              ELSE [type |-> "Table", keys |-> KVs(tgt[kind])]]

DeclCount(top, tgt) ==
  Len(top["normal"]) + Len(top["dev"]) + Len(top["build"])
    + Len(tgt["normal"]) + Len(tgt["dev"]) + Len(tgt["build"])

\* A table with keys exists; one without keys is absent or an empty table.
TypesFor(top, shapes) ==
  {t \in [Kinds -> {"None"} \cup shapes] :
     \A k \in Kinds : (t[k] = "None") => (top[k] = <<>>)}

NoKeys == [k \in Kinds |-> <<>>]

\* Manifests whose dependencies all sit in [header] tables.
TableDocs ==
  {MkDoc([k \in Kinds |-> IF top[k] = <<>> THEN "None" ELSE "Table"], top, NoKeys) :
     top \in {t \in [Kinds -> KeySeqs] : DeclCount(t, NoKeys) <= MaxDeps}}

\* Manifests of every shape: header tables, inline tables, absent tables and
\* target-specific declarations.
ShapeDocs ==
  UNION {UNION {{MkDoc(ty, top, tgt) : ty \in TypesFor(top, {"Table", "Value"})} :
                  tgt \in {g \in [Kinds -> KeySeqs] : DeclCount(top, g) <= MaxDeps}} :
           top \in {t \in [Kinds -> KeySeqs] : DeclCount(t, NoKeys) <= MaxDeps}}

\* Source trees.
TreeA == <<Path(<<"a", "x">>, <<>>)>>
TreeB == <<Path(<<"b">>, <<>>)>>
TreeNested == <<Path(<<"x", "a">>, <<Path(<<"b", "a">>, <<>>)>>)>>

RsFile(tree) == [walk_ok |-> TRUE, ext |-> "rs", readable |-> TRUE, parses |-> TRUE, tree |-> tree]
Unreadable(tree) == [RsFile(tree) EXCEPT !.readable = FALSE]
Unparsable(tree) == [RsFile(tree) EXCEPT !.parses = FALSE]
OtherFile(tree) == [RsFile(tree) EXCEPT !.ext = "txt"]
WalkError == [RsFile(<<>>) EXCEPT !.walk_ok = FALSE]

NoDir == [exists |-> FALSE, entries |-> <<>>]
Dir(entries) == [exists |-> TRUE, entries |-> entries]
NoBuildRs == [exists |-> FALSE, readable |-> FALSE, parses |-> FALSE, tree |-> <<>>]
BuildRs(readable, parses, tree) ==
  [exists |-> TRUE, readable |-> readable, parses |-> parses, tree |-> tree]

Fs(src, tests, build_rs) == [src |-> src, tests |-> tests, build_rs |-> build_rs]

\* A few source layouts with no unreadable file.
BasicFs ==
  { Fs(NoDir, NoDir, NoBuildRs),
    Fs(Dir(<<RsFile(TreeA)>>), NoDir, NoBuildRs),
    Fs(Dir(<<Unparsable(TreeA), OtherFile(TreeA)>>), Dir(<<RsFile(TreeNested)>>), NoBuildRs),
    Fs(Dir(<<>>), NoDir, BuildRs(TRUE, TRUE, TreeA)) }

\* Every layout of up to MaxFiles entries under src/.
EntryKinds ==
  {RsFile(TreeA), RsFile(TreeNested), Unreadable(TreeA), Unparsable(TreeB),
   OtherFile(TreeB), WalkError}

EntrySeqs == UNION {[1..n -> EntryKinds] : n \in 0..MaxFiles}

ScanFs ==
  {Fs(Dir(es), t, b) :
     es \in EntrySeqs,
     t \in {NoDir, Dir(<<RsFile(TreeB)>>)},
     b \in {NoBuildRs, BuildRs(TRUE, FALSE, TreeA), BuildRs(FALSE, TRUE, TreeA)}}

Pkg(member, manifest, fs) == [member |-> member, manifest |-> manifest, fs |-> fs]

\* A package of the dependency graph that is no workspace member.
Outsider == Pkg(FALSE, MkDoc([k \in Kinds |-> "None"], NoKeys, NoKeys), Fs(NoDir, NoDir, NoBuildRs))

Cli(fix, filter) == [fix |-> fix, filter |-> filter]
OnlyDev == [NoFilter EXCEPT !.only_dev = TRUE]
AllClis == {Cli(f, o) : f \in BOOLEAN, o \in FilterOptions}

\* The state after process start, for a command line and a workspace.
InitWith(c, w) ==
  /\ cli = c
  /\ ws = w
  /\ metadata = <<>>
  /\ pc = "main"
  /\ cur = 0
  /\ dir = 1
  /\ used_crates = {}
  /\ declared = NoDeclared
  /\ doc = EmptyDoc
  /\ changed = FALSE
  /\ iter = {}
  /\ out = <<>>
  /\ err = "none"
  /\ started = <<>>
  /\ completed = {}
  /\ written = {}
  /\ before = Manifests(w)
  /\ run = 1

\* One member package, alone or behind a non-member.
Around(p) == {<<p>>, <<Outsider, p>>}

\* Every command line, on packages whose dependencies sit in header tables.
Init ==
  \E c \in AllClis, m \in TableDocs, f \in BasicFs :
    \E w \in (IF c = Cli(FALSE, NoFilter) THEN Around(Pkg(TRUE, m, f)) ELSE {<<Pkg(TRUE, m, f)>>}) :
      InitWith(c, w)

Spec == Init /\ [][Next]_vars

\* Manifests of every shape, fixed twice.
InitShapes ==
  \E c \in {Cli(TRUE, NoFilter), Cli(TRUE, OnlyDev)}, m \in ShapeDocs,
     f \in {Fs(NoDir, NoDir, NoBuildRs), Fs(Dir(<<RsFile(TreeA)>>), NoDir, NoBuildRs)} :
    \E w \in (IF m = MkDoc([k \in Kinds |-> "None"], NoKeys, NoKeys)
              THEN Around(Pkg(TRUE, m, f)) ELSE {<<Pkg(TRUE, m, f)>>}) :
      InitWith(c, w)

SpecShapes == InitShapes /\ [][Next]_vars

\* Every source layout, on packages declaring both names under one kind.
InitScan ==
  \E c \in {Cli(x, o) : x \in BOOLEAN, o \in {NoFilter, OnlyDev}}, k \in Kinds, f \in ScanFs :
    LET m == MkDoc([x \in Kinds |-> IF x = k THEN "Table" ELSE "None"],
                   [x \in Kinds |-> IF x = k THEN <<"a", "b">> ELSE <<>>], NoKeys)
    IN  \E w \in (IF f.src.entries = <<>> THEN Around(Pkg(TRUE, m, f)) ELSE {<<Pkg(TRUE, m, f)>>}) :
          InitWith(c, w)

SpecScan == InitScan /\ [][Next]_vars

\* Workspaces of up to NPkgs packages.
WsPkgs ==
  { Outsider,
    Pkg(TRUE, MkDoc([k \in Kinds |-> IF k = "normal" THEN "Table" ELSE "None"],
                    [k \in Kinds |-> IF k = "normal" THEN <<"a">> ELSE <<>>], NoKeys),
        Fs(NoDir, NoDir, NoBuildRs)),
    Pkg(TRUE, MkDoc([k \in Kinds |-> IF k = "dev" THEN "Table" ELSE "None"],
                    [k \in Kinds |-> IF k = "dev" THEN <<"b", "a">> ELSE <<>>], NoKeys),
        Fs(Dir(<<RsFile(TreeA)>>), NoDir, NoBuildRs)),
    Pkg(TRUE, MkDoc([k \in Kinds |-> IF k = "build" THEN "Table" ELSE "None"],
                    [k \in Kinds |-> IF k = "build" THEN <<"a">> ELSE <<>>], NoKeys),
        Fs(NoDir, NoDir, BuildRs(TRUE, TRUE, TreeA))) }

InitWorkspace ==
  \E c \in {Cli(x, NoFilter) : x \in BOOLEAN},
     w \in UNION {[1..n -> WsPkgs] : n \in 1..NPkgs} :
    InitWith(c, w)

SpecWorkspace == InitWorkspace /\ [][Next]_vars

\* ------------------------------------------------------------- properties
\* The package analyze_package was last called for.
an == started[Len(started)]
Analysing == started # <<>>

\* A manifest item written as a [header] table.
TableShaped(item) == item.type = "Table"

\* The manifest document of package `an` has been read and parsed.
DocLoaded == doc # EmptyDoc

\* All three loops of the current pass are over.
LoopsDone == pc = "write" \/ (pc \in {"loop", "exit"} /\ Analysing /\ an \in completed)

\* The pass for package `an` returned Ok.
PassDone == pc \in {"loop", "exit"} /\ Analysing /\ an \in completed

UnusedLines == {out[i] : i \in {j \in 1..Len(out) : out[j].t = "Unused"}}

\* Every path node of a syntax tree, the nested ones included.
RECURSIVE PathNodes(_)
PathNodes(paths) ==
  IF paths = <<>> THEN {}
  ELSE {Head(paths)} \cup PathNodes(Head(paths).args) \cup PathNodes(Tail(paths))

LeadingSegments(tree) ==
  {p.segments[1] : p \in {q \in PathNodes(tree) : Len(q.segments) > 0}}

\* The syntax trees of the files of a package that are read and parsed.
GoodEntry(e) == e.walk_ok /\ e.ext = "rs" /\ e.readable /\ e.parses
DirTrees(d) ==
  IF d.exists THEN {d.entries[i].tree : i \in {j \in 1..Len(d.entries) : GoodEntry(d.entries[j])}}
  ELSE {}
GoodTrees(fs) ==
  DirTrees(fs.src) \cup DirTrees(fs.tests)
    \cup (IF fs.build_rs.exists /\ fs.build_rs.readable /\ fs.build_rs.parses
          THEN {fs.build_rs.tree} ELSE {})

\* The identifiers that lead some path of a read and parsed file.
UsedLeading(fs) == UNION {LeadingSegments(t) : t \in GoodTrees(fs)}

\* The unused set analyze_package computes for a kind of package `an`.
UnusedOf(kind) == declared[kind] \ used_crates

ExactlyOneFlag(filter) ==
  Cardinality({f \in {"only_dev", "only_build", "only_regular"} : filter[f]}) = 1

C2_KindIsolation ==
  (ExactlyOneFlag(cli.filter) /\ Analysing) =>
    \A k \in Kinds :
      (\/ (k = "normal" /\ ~cli.filter.only_regular)
       \/ (k = "dev" /\ ~cli.filter.only_dev)
       \/ (k = "build" /\ ~cli.filter.only_build)) =>
        /\ \A l \in UnusedLines : l.kind # k
        /\ DocLoaded => doc[TableName(k)] = before[an][TableName(k)]
        /\ ws[an].manifest[TableName(k)] = before[an][TableName(k)]

\* A fix pass restricted to development dependencies removed one and wrote the
\* manifest, while an unused regular dependency stayed.
C2_Witness ==
  /\ cli.fix
  /\ cli.filter = OnlyDev
  /\ PassDone
  /\ <<run, an>> \in written
  /\ UnusedOf("normal") # {}
  /\ UnusedOf("dev") # {}

\* C5 (write suppression): a manifest on disk changes only by a write of the
\* pass of its package, and that write happens only in fix mode with a
\* non-empty unused set for some active kind.
C5_WriteSuppression ==
  /\ \A j \in 1..Len(ws) :
       ws[j].manifest # before[j] => <<run, j>> \in written
  /\ (Analysing /\ <<run, an>> \in written) =>
       /\ cli.fix
       /\ \E k \in Kinds : Active(cli.filter, k) /\ UnusedOf(k) # {}
  /\ \A w \in written : w[1] = run => (Analysing /\ w[2] \in {started[i] : i \in 1..Len(started)})

\* A fix pass wrote the manifest of its package.
C5_Witness ==
  /\ cli.fix
  /\ PassDone
  /\ <<run, an>> \in written
  /\ ws[an].manifest # before[an]

\* The unused dependencies of package `an` in declaration order, kind by kind.
ExpectedReport ==
  LET deps == metadata[an].dependencies
      OfKind(k) ==
        SelectSeq(deps, LAMBDA d : d.kind = k /\ Active(cli.filter, k)
                                     /\ d.name \notin used_crates)
      Lines(ds) == [i \in 1..Len(ds) |-> Line("Unused", ds[i].kind, ds[i].name)]
  IN  Lines(OfKind("normal")) \o Lines(OfKind("dev")) \o Lines(OfKind("build"))

\* C10 (report order): once the three loops are over, the report lines are the
\* unused dependencies of each active kind in declaration order, one line each.
C10_ReportOrder ==
  (pc = "write") =>
    SelectSeq(out, LAMBDA l : l.t = "Unused") = ExpectedReport

\* C6 (per-file errors are non-fatal): the scan of a package never ends the
\* pass with an error, and once the scan is over the used set holds exactly the
\* leading segments of the files that were read and parsed.
C6_PerFileErrorsNonFatal ==
  /\ err # "source_read"
  /\ (Analysing /\ pc \in {"manifest", "normal", "dev", "build", "write"}) =>
       used_crates = UsedLeading(ws[an].fs)

\* What a fix pass leaves of a manifest whose dependency tables are all header
\* tables: the keys of the active kinds that no read and parsed file leads with
\* are gone.
Cleaned(manifest, fs) ==
  [t \in TopKeys |->
     IF \E k \in Kinds : t = TableName(k) /\ Active(cli.filter, k)
     THEN [manifest[t] EXCEPT
             !.keys = SelectSeq(manifest[t].keys, LAMBDA e : e.key \in UsedLeading(fs))]
     ELSE manifest[t]]

ManifestErrors == {"manifest_read", "manifest_parse", "manifest_write"}
Members(n) == {j \in 1..n : ws[j].member}
Started == {started[i] : i \in 1..Len(started)}

\* C7 (ordered processing, fatal abort): the member packages are analysed one
\* at a time in the provider's order; a manifest that cannot be read, parsed or
\* rewritten stops the run at that package: no later package is analysed or
\* written, and every earlier member has been processed in full, its rewritten
\* manifest kept.
C7_OrderedFatalAbort ==
  /\ pc # "main" =>
       /\ started = SelectSeq([i \in 1..cur |-> i], LAMBDA j : ws[j].member)
       /\ \A i \in 1..(Len(started) - 1) : started[i] \in completed
       /\ \A j \in (cur + 1)..Len(ws) :
            /\ <<run, j>> \notin written
            /\ ws[j].manifest = before[j]
       /\ \A j \in completed :
            ws[j].manifest = IF cli.fix THEN Cleaned(before[j], ws[j].fs) ELSE before[j]
  /\ err \in ManifestErrors =>
       /\ pc = "failed"
       /\ an = cur
       /\ cur \notin completed
       /\ ws[cur].manifest = before[cur]
       /\ Members(cur - 1) \subseteq completed

\* The rewrite of the second of three member packages failed in a fix run
\* after the first package's manifest was rewritten.
C7_Witness ==
  /\ err = "manifest_write"
  /\ Len(ws) = 3
  /\ cur = 2
  /\ ws[3].member
  /\ <<run, 1>> \in written
  /\ ws[1].manifest # before[1]
  /\ UnusedLines # {}

\* The (table, key) pairs of a manifest.
Pairs(manifest) == UNION {{<<t, n>> : n \in KeysOf(manifest[t])} : t \in TopKeys}

\* The pairs the pass of package `an` took out of its manifest on disk.
RemovedPairs == (Pairs(before[an]) \ Pairs(ws[an].manifest))

\* Every (table, name) with the table that of an active kind and the name in
\* that kind's unused set.
UnusedPairs ==
  UNION {{<<TableName(k), n>> : n \in UnusedOf(k)} : k \in {x \in Kinds : Active(cli.filter, x)}}

\* Those among them that a [header] table of the manifest holds as a key.
RemovablePairs ==
  {p \in UnusedPairs : TableShaped(before[an][p[1]]) /\ p[2] \in KeysOf(before[an][p[1]])}

\* Every key the pass did not take out is where it was, with its value.
OthersKept(removed) ==
  \A t \in TopKeys :
    /\ ws[an].manifest[t].type = before[an][t].type
    /\ ws[an].manifest[t].keys =
         SelectSeq(before[an][t].keys, LAMBDA e : <<t, e.key>> \notin removed)

\* C4 as stated (non-destructive editing): after a fix pass the keys removed
\* from the manifest are exactly the (table, name) pairs of the unused names of
\* the active kinds, and every other key is kept with its value.
C4_RemovedExactlyUnused ==
  (cli.fix /\ PassDone) =>
    /\ RemovedPairs = UnusedPairs
    /\ OthersKept(UnusedPairs)

\* C4 as amended: the keys removed are exactly the unused names of the active
\* kinds that are keys of a table-shaped dependency table; every other key of
\* every table is kept with its value.
C4_RemovedExactlyRemovable ==
  (cli.fix /\ PassDone) =>
    /\ RemovedPairs = RemovablePairs
    /\ OthersKept(RemovablePairs)

\* A fix pass removed an unused key from a table and left alone an unused name
\* that is no key of a table-shaped table.
C4_Witness ==
  /\ cli.fix
  /\ PassDone
  /\ RemovedPairs # {}
  /\ RemovablePairs # UnusedPairs

\* C8 (write only after a removal): the manifest is written at the end of a
\* fix pass only if the pass removed at least one entry from the document.
C8_WriteOnlyAfterRemoval ==
  (Analysing /\ <<run, an>> \in written) => doc # before[an]

\* C9 (per-table errors are non-fatal): in fix mode a dependency table of an
\* active kind that is absent or not table-shaped loses nothing and does not by
\* itself cause a write; its unused names are reported all the same, the
\* table-shaped tables of the other active kinds lose their unused keys, and
\* the pass fails for no reason but a failed read or write.
C9_PerTableErrorsNonFatal ==
  /\ err \in {"none", "metadata", "source_read"} \cup ManifestErrors
  /\ (cli.fix /\ Analysing /\ DocLoaded) =>
       /\ \A k \in Kinds :
            ~TableShaped(before[an][TableName(k)]) =>
              /\ doc[TableName(k)] = before[an][TableName(k)]
              /\ ws[an].manifest[TableName(k)] = before[an][TableName(k)]
       /\ (\A k \in Kinds :
             (Active(cli.filter, k) /\ UnusedOf(k) # {}) => ~TableShaped(before[an][TableName(k)]))
            => (~changed /\ <<run, an>> \notin written)
       /\ LoopsDone =>
            \A k \in {x \in Kinds : Active(cli.filter, x)} :
              /\ \A n \in UnusedOf(k) : Line("Unused", k, n) \in UnusedLines
              /\ TableShaped(before[an][TableName(k)]) =>
                   KeysOf(doc[TableName(k)]) \cap UnusedOf(k) = {}
  /\ (cli.fix /\ PassDone
        /\ \E k \in Kinds : Active(cli.filter, k) /\ RemovablePairs # {}) =>
       <<run, an>> \in written

\* A fix pass reported the unused name of an inline regular-dependency table,
\* left that table alone, removed the unused development dependency and wrote
\* the manifest.
C9_Witness ==
  /\ cli.fix
  /\ PassDone
  /\ before[an]["dependencies"].type = "Value"
  /\ Line("Unused", "normal", "a") \in UnusedLines
  /\ "a" \in KeysOf(ws[an].manifest["dependencies"])
  /\ Line("Unused", "dev", "b") \in UnusedLines
  /\ "b" \in KeysOf(before[an]["dev-dependencies"])
  /\ "b" \notin KeysOf(ws[an].manifest["dev-dependencies"])
  /\ <<run, an>> \in written

\* C3 as stated (idempotence of fix): in a fix run that follows a fix run, no
\* dependency is reported as unused and no manifest changes.
C3_SecondRunReportsNothing ==
  (run > 1 /\ cli.fix) =>
    /\ UnusedLines = {}
    /\ Manifests(ws) = before

\* C3 as amended: in a fix run that follows a fix run no manifest's content
\* changes, and the only dependencies reported as unused are those the first
\* run could not remove: names that are not keys of a table-shaped table of
\* their kind.
C3_SecondRunChangesNothing ==
  (run > 1 /\ cli.fix) =>
    /\ Manifests(ws) = before
    /\ Analysing =>
         \A l \in UnusedLines :
           ~(TableShaped(before[an][TableName(l.kind)])
               /\ l.name \in KeysOf(before[an][TableName(l.kind)]))

\* The second fix run is over: the first one had removed a key and written the
\* manifest, and the second one reported a name of an inline table again.
C3_Witness ==
  /\ run = 2
  /\ pc = "exit"
  /\ Analysing
  /\ <<1, an>> \in written
  /\ \E k \in Kinds : before[an][TableName(k)] = [type |-> "Table", keys |-> <<>>]
  /\ \E l \in UnusedLines : before[an][TableName(l.kind)].type = "Value"

====
